---- MODULE Spec2Model ----
\* A model of src/sender.go: the webhook sender that matches verified speedrun
\* runs against the stored Discord subscriptions, classifies each run with the
\* personal-bests list of the triggering player and posts one message per
\* matched destination.
\*
\* One behaviour of the model is one process handling one batch: the request
\* handler (runsHandler / HandleVerified), one goroutine per run (SendWebhook)
\* and one goroutine per matched destination (the closure of SendWebhook).
\*
\* MatchSpec, FieldsSpec and TimeSpec apply one function of the program (the
\* matcher of HandleVerified, the category and variables fields and the time
\* field of SendWebhook) to arguments drawn from bounded sets.
EXTENDS Integers, Sequences, FiniteSets, TLC

\* ---------------------------------------------------------------- bounds

\* Longest batch the handler receives.
MaxRuns == 2
\* Tokens each limiter's bucket holds in the model (never more than its burst).
MaxTokens == 1
\* Most (run, destination) pairs the runs of a batch match.
MaxPairs == 2

\* rate.NewLimiter(rate.Every(1*time.Minute), 33): burst of the upstream limiter.
BurstS == 33
\* rate.NewLimiter(rate.Every(3*time.Second), 5): burst of the Discord limiter.
BurstD == 5

Min(a, b) == IF a < b THEN a ELSE b

CapS == Min(BurstS, MaxTokens)
CapD == Min(BurstD, MaxTokens)

RunIdx == 1..MaxRuns

\* ------------------------------------------------------------ input data

UrlSeq == <<"u1", "u2">>
URLs == {UrlSeq[k] : k \in 1..Len(UrlSeq)}

Statuses == {"verified", "new", "rejected"}

\* Players.Data entries: a registered player has an id and an international
\* name, a guest has only a name.
Ann == [ID |-> "p1", Name |-> "", International |-> "Ann"]
Bob == [ID |-> "p2", Name |-> "", International |-> "Bob"]
Gus == [ID |-> "", Name |-> "Gus", International |-> ""]

\* The runs a batch is made of (type Data), without their status.
RunSolo == [ID |-> "rA", Category |-> "c1", Players |-> <<Ann>>,
            Trophy1st |-> "g1.png", Trophy2nd |-> "", Trophy3rd |-> ""]
RunDuo == [ID |-> "rB", Category |-> "c2", Players |-> <<Ann, Bob>>,
           Trophy1st |-> "", Trophy2nd |-> "g2.png", Trophy3rd |-> ""]
RunGuest == [ID |-> "rG", Category |-> "c1", Players |-> <<Gus, Bob>>,
             Trophy1st |-> "", Trophy2nd |-> "", Trophy3rd |-> ""]

RunCatalogue == {RunSolo, RunDuo, RunGuest}

WithStatus(r, s) ==
    [ID |-> r.ID, Category |-> r.Category, Players |-> r.Players,
     Trophy1st |-> r.Trophy1st, Trophy2nd |-> r.Trophy2nd,
     Trophy3rd |-> r.Trophy3rd, Status |-> s]

Runs == {WithStatus(r, s) : r \in RunCatalogue, s \in Statuses}

Batches == UNION {[1..n -> Runs] : n \in 0..MaxRuns}

\* The Records part of a stored subscription (type Webhook): a destination
\* subscribed to category c1 and to player p1, one subscribed to the personal
\* bests of player p2, one subscribed to the personal bests in category c1.
RecAll == [Categories |-> <<"c1">>, Users |-> <<"p1">>, Events |-> "all"]
RecPbUser == [Categories |-> <<>>, Users |-> <<"p2">>, Events |-> "pb"]
RecPbCat == [Categories |-> <<"c1">>, Users |-> <<>>, Events |-> "pb"]

\* The subscriptions destination u can be stored with.
RecordsOf(u) == IF u = UrlSeq[1] THEN {RecAll, RecPbUser} ELSE {RecPbUser, RecPbCat}

Subscription(u, r) ==
    [WebhookUrl |-> u, Categories |-> r.Categories, Users |-> r.Users,
     Events |-> r.Events, PlayerIndex |-> 0]

\* The collection holds at most one document per WebhookUrl.
Stores ==
    UNION { { {Subscription(u, f[u]) : u \in us} :
                f \in {g \in [us -> {RecAll, RecPbUser, RecPbCat}] :
                          \A u \in us : g[u] \in RecordsOf(u)} }
            : us \in SUBSET URLs }

\* -------------------------------------------------------- pure functions

Digits == <<"0", "1", "2", "3", "4", "5", "6", "7", "8", "9">>

\* strconv.Itoa for a natural number.
RECURSIVE Itoa(_)
Itoa(n) == IF n < 10 THEN Digits[n + 1] ELSE Itoa(n \div 10) \o Digits[(n % 10) + 1]

\* humanize.Ordinal: the number followed by st, nd, rd or th.
Ordinal(x) ==
    LET suffix ==
            IF x % 10 = 1 /\ x % 100 /= 11 THEN "st"
            ELSE IF x % 10 = 2 /\ x % 100 /= 12 THEN "nd"
            ELSE IF x % 10 = 3 /\ x % 100 /= 13 THEN "rd"
            ELSE "th"
    IN  Itoa(x) \o suffix

InSeq(x, s) == \E k \in 1..Len(s) : s[k] = x

NoMatch == -1

\* A matcher whose category rule does not look at the first player's name.
MatchIndexAnyFirst(run, webhook) ==
    IF InSeq(run.Category, webhook.Categories) THEN 0
    ELSE LET hits == {i \in 0..(Len(run.Players) - 1) :
                         InSeq(run.Players[i + 1].ID, webhook.Users)}
         IN  IF hits = {} THEN NoMatch
             ELSE CHOOSE i \in hits : \A j \in hits : i <= j

\* The body of the nextWebhook loop for one webhook: the PlayerIndex the
\* webhook is stored with in webhooksToSend, or NoMatch.
MatchIndex(run, webhook) ==
    IF InSeq(run.Category, webhook.Categories)
       /\ run.Players[1].International /= ""
    THEN 0
    ELSE LET hits == {i \in 0..(Len(run.Players) - 1) :
                         InSeq(run.Players[i + 1].ID, webhook.Users)}
         IN  IF hits = {} THEN NoMatch
             ELSE CHOOSE i \in hits : \A j \in hits : i <= j

WithIndex(webhook, i) == [webhook EXCEPT !.PlayerIndex = i]

\* The nextWebhook loop of HandleVerified over webhooks[k..]: webhooksToSend,
\* a map from WebhookUrl to the webhook and its PlayerIndex.
RECURSIVE MatchFrom(_, _, _, _)
MatchFrom(run, webhooks, k, acc) ==
    IF k > Len(webhooks) THEN acc
    ELSE LET w == webhooks[k]
             i == MatchIndex(run, w)
             hit == [u \in DOMAIN acc \cup {w.WebhookUrl} |->
                        IF u = w.WebhookUrl THEN WithIndex(w, i) ELSE acc[u]]
         IN  MatchFrom(run, webhooks, k + 1, IF i = NoMatch THEN acc ELSE hit)

EmptyMap == [u \in {} |-> 0]

Match(run, webhooks) == MatchFrom(run, webhooks, 1, EmptyMap)

\* GetWebhooks: the documents of the collection in the order the cursor
\* returns them (here the order of UrlSeq), from position k on.
RECURSIVE ListFrom(_, _)
ListFrom(docs, k) ==
    IF k > Len(UrlSeq) THEN <<>>
    ELSE LET here == {d \in docs : d.WebhookUrl = UrlSeq[k]}
         IN  (IF here = {} THEN <<>> ELSE <<CHOOSE d \in here : TRUE>>)
             \o ListFrom(docs, k + 1)

GetWebhooks(docs) == ListFrom(docs, 1)

\* The lists the upstream service answers a personal-bests query with, for
\* the run with id r (type PBs: place and run id).
PBLists(r) ==
    { <<[Place |-> 1, Run |-> "other"]>>,
      <<[Place |-> 1, Run |-> r]>>,
      <<[Place |-> 1, Run |-> "other"], [Place |-> 4, Run |-> r]>> }

\* What cS.Do and the body of its response can be.
PBOutcomes(r) ==
    {[kind |-> k, list |-> <<>>] :
        k \in {"error", "400", "404", "malformed", "readfail"}}
    \cup {[kind |-> "ok", list |-> l] : l \in PBLists(r)}

\* parseResPBs: the PBs a response is parsed into ("readfail" panics before).
ParseResPBs(o) == IF o.kind = "ok" THEN o.list ELSE <<>>

\* Position of the first entry of pbs for run id r, 0 when there is none.
FirstPB(pbs, r) ==
    LET hits == {k \in 1..Len(pbs) : pbs[k].Run = r}
    IN  IF hits = {} THEN 0 ELSE CHOOSE k \in hits : \A j \in hits : k <= j

\* The switch on place that sets iconUrl.
IconFor(run, place) ==
    CASE place = "1st" ->
            IF run.Trophy1st /= "" THEN run.Trophy1st
            ELSE "https://www.speedrun.com/images/1st.png"
      [] place = "2nd" ->
            IF run.Trophy2nd /= "" THEN run.Trophy2nd
            ELSE "https://www.speedrun.com/images/2nd.png"
      [] place = "3rd" ->
            IF run.Trophy3rd /= "" THEN run.Trophy3rd
            ELSE "https://www.speedrun.com/images/3rd.png"
      [] OTHER -> ""

\* The author phrase of the message triggered by player playerIndex.
AuthorOf(run, playerIndex) ==
    LET name == run.Players[playerIndex + 1].International
        n == Len(run.Players)
    IN  IF n > 2 THEN name \o " and " \o Itoa(n - 1) \o " others"
        ELSE IF n > 1 THEN name \o " and " \o Itoa(n - 1) \o " other"
        ELSE name

NoFooter == [text |-> "", icon_url |-> ""]

\* The embed built from the variables the closure reads: title kind, author
\* phrase of title and description, footer.
Embed(place, isPb, author, iconUrl) ==
    [title |-> IF place = "1st" THEN "world record"
               ELSE IF isPb THEN "personal best"
               ELSE "run",
     author |-> author,
     footer |-> IF place /= "" /\ isPb
                THEN [text |-> "They're now " \o place \o " place!",
                      icon_url |-> iconUrl]
                ELSE NoFooter]

NoEmbed == [title |-> "", author |-> "", footer |-> NoFooter]

\* What http.Post to a destination can answer.
PostOutcomes == {"204", "404", "429", "500", "error"}

\* ----------------------------------------------------------------- state

VARIABLES
    batch,      \* the decoded request body: []Data
    store,      \* the documents of the webhook collection
    removed,    \* per WebhookUrl, the sum of DeletedCount over all DeleteOne
    hpc,        \* where runsHandler is
    webhooks,   \* the result of GetWebhooks in runsHandler
    nextRun,    \* position of the range loop of HandleVerified
    wg,         \* the counter of the global WaitGroup
    tokS,       \* tokens of the upstream limiter (cS.limiter)
    tokD,       \* tokens of the Discord limiter (cD.limiter)
    takenS,     \* number of cS.limiter.Wait calls that returned
    takenD,     \* number of cD.limiter.Wait calls that returned
    crashed,    \* "" while the process runs, else why it ended
    rpc,        \* per run: where its SendWebhook goroutine is
    toSend,     \* per run: webhooksToSend
    todo,       \* per run: keys of webhooksToSend the range loop has not visited
    cur,        \* per run: the key the range loop is at
    pbval,      \* per run: the result of the GetPersonalBests call in progress
    userPBs,    \* per run: the map userPBs
    pbFailed,   \* per run: the player indexes whose query did not answer a list
    pbQueries,  \* per run and player index: requests sent by GetPersonalBests
    place,      \* per run: the variable place, shared by the closures
    iconUrl,    \* per run: the variable iconUrl, shared by the closures
    author,     \* per run: the variable author, shared by the closures
    dpc,        \* per run and destination: where the closure goroutine is
    isPb,       \* per run and destination: the closure's local isPb
    embed,      \* per run and destination: the embed the closure built
    posts,      \* per run and destination: number of http.Post calls
    answer,     \* per run and destination: what the last http.Post answered
    arg,        \* the arguments of the function a function specification applies
    result      \* what that function returned

hvars == <<batch, hpc, webhooks, nextRun>>
svars == <<store, removed>>
lvars == <<tokS, tokD, takenS, takenD>>
rvars == <<rpc, toSend, todo, cur, pbval, userPBs, pbFailed, pbQueries>>
shvars == <<place, iconUrl, author>>
dvars == <<dpc, isPb, embed, posts, answer>>
fvars == <<arg, result>>

vars == <<hvars, svars, lvars, wg, crashed, rvars, shvars, dvars, fvars>>

PlayerIdx == 0..1

RECURSIVE Pairs(_, _, _)
Pairs(runs, docs, k) ==
    IF k > Len(runs) THEN 0
    ELSE Cardinality(DOMAIN Match(runs[k], GetWebhooks(docs))) + Pairs(runs, docs, k + 1)

\* The process before a request arrived: nothing listed, no goroutine started,
\* both buckets full.
Constructed ==
    /\ removed = [u \in URLs |-> 0]
    /\ hpc = "start"
    /\ webhooks = <<>>
    /\ nextRun = 1
    /\ wg = 0
    /\ tokS = CapS
    /\ tokD = CapD
    /\ takenS = 0
    /\ takenD = 0
    /\ crashed = ""
    /\ rpc = [i \in RunIdx |-> "idle"]
    /\ toSend = [i \in RunIdx |-> EmptyMap]
    /\ todo = [i \in RunIdx |-> {}]
    /\ cur = [i \in RunIdx |-> ""]
    /\ pbval = [i \in RunIdx |-> <<>>]
    /\ userPBs = [i \in RunIdx |-> EmptyMap]
    /\ pbFailed = [i \in RunIdx |-> {}]
    /\ pbQueries = [i \in RunIdx |-> [p \in PlayerIdx |-> 0]]
    /\ place = [i \in RunIdx |-> ""]
    /\ iconUrl = [i \in RunIdx |-> ""]
    /\ author = [i \in RunIdx |-> ""]
    /\ dpc = [i \in RunIdx |-> [u \in URLs |-> "idle"]]
    /\ isPb = [i \in RunIdx |-> [u \in URLs |-> FALSE]]
    /\ embed = [i \in RunIdx |-> [u \in URLs |-> NoEmbed]]
    /\ posts = [i \in RunIdx |-> [u \in URLs |-> 0]]
    /\ answer = [i \in RunIdx |-> [u \in URLs |-> ""]]

Init ==
    /\ batch \in Batches
    /\ store \in Stores
    /\ Pairs(batch, store, 1) <= MaxPairs
    /\ Constructed
    /\ arg = <<>>
    /\ result = <<>>

Running == crashed = ""

\* ----------------------------------------------------- the request handler

\* runsHandler up to the switch: the body is read and decoded, GetWebhooks
\* lists the collection.
Receive ==
    /\ Running /\ hpc = "start"
    /\ webhooks' = GetWebhooks(store)
    /\ hpc' = "switch"
    /\ UNCHANGED <<fvars, batch, nextRun, svars, lvars, wg, crashed, rvars, shvars, dvars>>

\* GetWebhooks cannot connect, find or decode: log.Fatal ends the process.
ReceiveFail ==
    /\ Running /\ hpc = "start"
    /\ crashed' = "fatal: GetWebhooks"
    /\ UNCHANGED <<fvars, hvars, svars, lvars, wg, rvars, shvars, dvars>>

\* switch data[0].Status.Status: data[0] of an empty batch panics in the
\* handler's goroutine, which net/http recovers: no status is written.
Switch ==
    /\ Running /\ hpc = "switch"
    /\ IF Len(batch) = 0
       THEN hpc' = "panicked" /\ wg' = wg
       ELSE IF batch[1].Status = "verified"
       THEN hpc' = "runs" /\ wg' = wg + 1
       ELSE hpc' = "respond" /\ wg' = wg
    /\ UNCHANGED <<fvars, batch, webhooks, nextRun, svars, lvars, crashed, rvars, shvars, dvars>>

\* One iteration of the range loop of HandleVerified: the run is matched and,
\* when webhooksToSend is not empty, its SendWebhook goroutine is started.
HandleRun ==
    /\ Running /\ hpc = "runs" /\ nextRun <= Len(batch)
    /\ LET i == nextRun
           m == Match(batch[i], webhooks)
       IN  IF DOMAIN m /= {}
           THEN /\ wg' = wg + 1
                /\ toSend' = [toSend EXCEPT ![i] = m]
                /\ todo' = [todo EXCEPT ![i] = DOMAIN m]
                /\ rpc' = [rpc EXCEPT ![i] = "loop"]
           ELSE UNCHANGED <<wg, toSend, todo, rpc>>
    /\ nextRun' = nextRun + 1
    /\ UNCHANGED <<fvars, batch, hpc, webhooks, svars, lvars, crashed, cur, pbval, userPBs,
                   pbFailed, pbQueries, shvars, dvars>>

\* The end of HandleVerified, wg.Done(), and back in runsHandler
\* w.WriteHeader(200): nothing waits on wg in between.
HandleDone ==
    /\ Running /\ hpc = "runs" /\ nextRun > Len(batch)
    /\ wg' = wg - 1
    /\ hpc' = "done"
    /\ UNCHANGED <<fvars, batch, webhooks, nextRun, svars, lvars, crashed, rvars, shvars, dvars>>

\* case "new", case "rejected" and no case at all: w.WriteHeader(200)
Respond ==
    /\ Running /\ hpc = "respond"
    /\ hpc' = "done"
    /\ UNCHANGED <<fvars, batch, webhooks, nextRun, svars, lvars, wg, crashed, rvars, shvars, dvars>>

\* ------------------------------------- the goroutine of one run: SendWebhook

IndexOf(i, u) == toSend[i][u].PlayerIndex

\* A bug: the cache is never hit, every destination queries again.
NeverCached(i, u) == FALSE

\* if _, ok := userPBs[webhook.PlayerIndex]; !ok: the list of the triggering
\* player of destination u is already in the map.
Cached(i, u) == IndexOf(i, u) \in DOMAIN userPBs[i]

\* A bug: Wait is replaced by a call that does not block.
NoWait(tok) == TRUE

\* c.limiter.Wait(ctx) returns only when the bucket holds a token.
HasToken(tok) == tok > 0

\* go func(webhook, webhook.PlayerIndex): the closure goroutine of destination u.
Started(i, u) == [dpc EXCEPT ![i][u] = "classify"]

\* One iteration of `for _, webhook := range *webhooks` (a map: any order):
\* wg.Add(1), then either the cached userPBs entry is used and the closure
\* goroutine started, or GetPersonalBests is called.
RunPick(i, u) ==
    /\ Running /\ rpc[i] = "loop" /\ u \in todo[i]
    /\ wg' = wg + 1
    /\ IF Cached(i, u)
       THEN /\ dpc' = Started(i, u)
            /\ todo' = [todo EXCEPT ![i] = @ \ {u}]
            /\ UNCHANGED <<rpc, cur>>
       ELSE /\ rpc' = [rpc EXCEPT ![i] = "pbwait"]
            /\ cur' = [cur EXCEPT ![i] = u]
            /\ UNCHANGED <<dpc, todo>>
    /\ UNCHANGED <<fvars, hvars, svars, lvars, crashed, toSend, pbval, userPBs, pbFailed,
                   pbQueries, shvars, isPb, embed, posts, answer>>

\* SpeedrunClient.Do: c.limiter.Wait returns once the upstream limiter has a
\* token, and takes it.
PBAcquire(i) ==
    /\ Running /\ rpc[i] = "pbwait"
    /\ HasToken(tokS)
    /\ tokS' = tokS - 1
    /\ takenS' = takenS + 1
    /\ rpc' = [rpc EXCEPT ![i] = "pbcall"]
    /\ UNCHANGED <<fvars, hvars, svars, tokD, takenD, wg, crashed, toSend, todo, cur, pbval,
                   userPBs, pbFailed, pbQueries, shvars, dvars>>

\* GetPersonalBests after the limiter: the request is sent and parseResPBs
\* parses what came back. A body that cannot be read panics (log.Panic) in
\* this goroutine, which ends the process.
PBResponse(i, o) ==
    /\ Running /\ rpc[i] = "pbcall"
    /\ pbQueries' = [pbQueries EXCEPT ![i][IndexOf(i, cur[i])] = @ + 1]
    /\ IF o.kind = "readfail"
       THEN /\ crashed' = "panic: parseResPBs"
            /\ UNCHANGED <<rpc, pbval, pbFailed>>
       ELSE /\ pbval' = [pbval EXCEPT ![i] = ParseResPBs(o)]
            /\ pbFailed' = [pbFailed EXCEPT ![i] =
                               IF o.kind = "ok" THEN @ ELSE @ \cup {IndexOf(i, cur[i])}]
            /\ rpc' = [rpc EXCEPT ![i] = "pbstore"]
            /\ UNCHANGED crashed
    /\ UNCHANGED <<fvars, hvars, svars, lvars, wg, toSend, todo, cur, userPBs, shvars, dvars>>

\* userPBs[webhook.PlayerIndex] = ... completes, and the closure goroutine of
\* the destination is started. While rpc is "pbstore" the map is being written.
PBStore(i) ==
    /\ Running /\ rpc[i] = "pbstore"
    /\ LET p == IndexOf(i, cur[i])
       IN  userPBs' = [userPBs EXCEPT ![i] =
                          [q \in DOMAIN @ \cup {p} |-> IF q = p THEN pbval[i] ELSE @[q]]]
    /\ dpc' = Started(i, cur[i])
    /\ todo' = [todo EXCEPT ![i] = @ \ {cur[i]}]
    /\ rpc' = [rpc EXCEPT ![i] = "loop"]
    /\ UNCHANGED <<fvars, hvars, svars, lvars, wg, crashed, toSend, cur, pbval, pbFailed,
                   pbQueries, shvars, isPb, embed, posts, answer>>

\* The range loop is over: wg.Done() at the end of SendWebhook.
RunFinish(i) ==
    /\ Running /\ rpc[i] = "loop" /\ todo[i] = {}
    /\ wg' = wg - 1
    /\ rpc' = [rpc EXCEPT ![i] = "done"]
    /\ UNCHANGED <<fvars, hvars, svars, lvars, crashed, toSend, todo, cur, pbval, userPBs,
                   pbFailed, pbQueries, shvars, dvars>>

\* --------------------------- the goroutine of one destination: the closure

\* The userPBs map is read while the goroutine of the run writes another key.
MapRace(i) == rpc[i] = "pbstore"

\* for _, pb := range userPBs[playerIndex].Data: the run is looked up in the
\* list of the triggering player; found, place (shared) and isPb are set.
\* A read that overlaps a write of the map is a data race: the runtime either
\* aborts the process or the read goes through.
Classify(i, u) ==
    /\ Running /\ dpc[i][u] = "classify"
    /\ LET pbs == userPBs[i][IndexOf(i, u)]
           k == FirstPB(pbs, batch[i].ID)
       IN  /\ place' = IF k = 0 THEN place
                       ELSE [place EXCEPT ![i] = Ordinal(pbs[k].Place)]
           /\ isPb' = [isPb EXCEPT ![i][u] = (k /= 0)]
    /\ dpc' = [dpc EXCEPT ![i][u] = "icon"]
    /\ UNCHANGED <<fvars, hvars, svars, lvars, wg, crashed, rvars, iconUrl, author, embed,
                   posts, answer>>

ClassifyRace(i, u) ==
    /\ Running /\ dpc[i][u] = "classify" /\ MapRace(i)
    /\ crashed' = "fatal: concurrent map read and map write"
    /\ UNCHANGED <<fvars, hvars, svars, lvars, wg, rvars, shvars, dvars>>

\* A bug: the filter tests for a scope no subscription has.
SkipsWr(webhook, pb) == webhook.Events = "wr" /\ ~pb

\* if webhook.Records.Events == "pb" && !isPb { return }
Skips(webhook, pb) == webhook.Events = "pb" /\ ~pb

\* switch place: iconUrl (shared) is set from place (shared). Then the pb
\* filter returns from the closure (without wg.Done); otherwise author (shared)
\* is set.
Icon(i, u) ==
    /\ Running /\ dpc[i][u] = "icon"
    /\ iconUrl' = [iconUrl EXCEPT ![i] = IconFor(batch[i], place[i])]
    /\ IF Skips(toSend[i][u], isPb[i][u])
       THEN /\ dpc' = [dpc EXCEPT ![i][u] = "returned"]
            /\ UNCHANGED author
       ELSE /\ author' = [author EXCEPT ![i] = AuthorOf(batch[i], IndexOf(i, u))]
            /\ dpc' = [dpc EXCEPT ![i][u] = "compose"]
    /\ UNCHANGED <<fvars, hvars, svars, lvars, wg, crashed, rvars, place, isPb,
                   embed, posts, answer>>

\* embeds and jsonBody are built from place, iconUrl and author (shared) and
\* the local isPb.
Compose(i, u) ==
    /\ Running /\ dpc[i][u] = "compose"
    /\ embed' = [embed EXCEPT ![i][u] =
                    Embed(place[i], isPb[i][u], author[i], iconUrl[i])]
    /\ dpc' = [dpc EXCEPT ![i][u] = "wait"]
    /\ UNCHANGED <<fvars, hvars, svars, lvars, wg, crashed, rvars, shvars, isPb, posts, answer>>

\* DiscordClient.Do: c.limiter.Wait returns once the Discord limiter has a
\* token, and takes it.
DAcquire(i, u) ==
    /\ Running /\ dpc[i][u] = "wait"
    /\ HasToken(tokD)
    /\ tokD' = tokD - 1
    /\ takenD' = takenD + 1
    /\ dpc' = [dpc EXCEPT ![i][u] = "post"]
    /\ UNCHANGED <<fvars, hvars, svars, tokS, takenS, wg, crashed, rvars, shvars, isPb,
                   embed, posts, answer>>

\* What Connect and DeleteOne can do in DeleteWebhook.
DeleteOutcomes == {"deleted", "noconnect", "failed"}

\* A bug: the filter names a field no document has, nothing is deleted.
DeleteOneNoField(docs, u) == docs

\* A bug: the filter matches every document and all are deleted.
DeleteEvery(docs, u) == {}

\* collection.DeleteOne with the filter WebhookUrl = u.
DeleteOne(docs, u) == {d \in docs : d.WebhookUrl /= u}

DeletedCount(docs, u) == Cardinality(docs) - Cardinality(DeleteOne(docs, u))

\* A bug: a rate-limited delivery is sent again.
RetryAfterPost(o) == IF o = "429" THEN "wait" ELSE "done"

\* Where the closure is after the status checks: at its end, whatever the
\* status was (404 and 429 are logged, nothing is sent again).
NextAfterPost(o) == "done"

\* http.Post and what follows it. A transport error leaves res nil and
\* res.StatusCode panics; 404 calls DeleteWebhook, where a failed Connect is
\* log.Fatal and a failed DeleteOne leaves result nil, so result.DeletedCount
\* panics; every other answer ends in wg.Done().
DPost(i, u, o, del) ==
    /\ Running /\ dpc[i][u] = "post"
    /\ posts' = [posts EXCEPT ![i][u] = @ + 1]
    /\ answer' = [answer EXCEPT ![i][u] = o]
    /\ IF o = "error"
       THEN /\ crashed' = "panic: nil response"
            /\ UNCHANGED <<svars, wg, dpc>>
       ELSE IF o = "404" /\ del = "noconnect"
       THEN /\ crashed' = "fatal: Connect"
            /\ UNCHANGED <<svars, wg, dpc>>
       ELSE IF o = "404" /\ del = "failed"
       THEN /\ crashed' = "panic: nil delete result"
            /\ UNCHANGED <<svars, wg, dpc>>
       ELSE /\ IF o = "404"
               THEN /\ store' = DeleteOne(store, u)
                    /\ removed' = [removed EXCEPT ![u] = @ + DeletedCount(store, u)]
               ELSE UNCHANGED svars
            /\ wg' = wg - 1
            /\ dpc' = [dpc EXCEPT ![i][u] = NextAfterPost(o)]
            /\ UNCHANGED crashed
    /\ UNCHANGED <<fvars, hvars, lvars, rvars, shvars, isPb, embed>>

\* ------------------------------------------------------------ the limiters

\* The limiter computes its tokens when a call arrives: a pending Wait sleeps
\* until the bucket has regained a token (one a minute upstream).
RefillS ==
    /\ Running /\ tokS < CapS
    /\ \E i \in RunIdx : rpc[i] = "pbwait"
    /\ tokS' = tokS + 1
    /\ UNCHANGED <<fvars, hvars, svars, tokD, takenS, takenD, wg, crashed, rvars, shvars, dvars>>

\* The same for the Discord limiter (one token every 3 seconds).
RefillD ==
    /\ Running /\ tokD < CapD
    /\ \E i \in RunIdx, u \in URLs : dpc[i][u] = "wait"
    /\ tokD' = tokD + 1
    /\ UNCHANGED <<fvars, hvars, svars, tokS, takenS, takenD, wg, crashed, rvars, shvars, dvars>>

\* ------------------------------------------------------ the specification

Next ==
    \/ Receive
    \/ ReceiveFail
    \/ Switch
    \/ HandleRun
    \/ HandleDone
    \/ Respond
    \/ \E i \in RunIdx, u \in URLs : RunPick(i, u)
    \/ \E i \in RunIdx : PBAcquire(i)
    \/ \E i \in RunIdx : rpc[i] = "pbcall" /\ \E o \in PBOutcomes(batch[i].ID) : PBResponse(i, o)
    \/ \E i \in RunIdx : PBStore(i)
    \/ \E i \in RunIdx : RunFinish(i)
    \/ \E i \in RunIdx, u \in URLs : Classify(i, u)
    \/ \E i \in RunIdx, u \in URLs : ClassifyRace(i, u)
    \/ \E i \in RunIdx, u \in URLs : Icon(i, u)
    \/ \E i \in RunIdx, u \in URLs : Compose(i, u)
    \/ \E i \in RunIdx, u \in URLs : DAcquire(i, u)
    \/ \E i \in RunIdx, u \in URLs : \E o \in PostOutcomes, del \in DeleteOutcomes :
           DPost(i, u, o, del)
    \/ RefillS
    \/ RefillD

Spec == Init /\ [][Next]_vars

\* ----------------------------------------------------------- properties

BatchIdx == 1..Len(batch)

Matched(i, u) == i \in BatchIdx /\ u \in DOMAIN toSend[i]

Posted(i, u) == posts[i][u] > 0

\* C1: for every run of the batch whose status is not "verified", no POST is
\* issued for that run.
C1_NoPostForUnverifiedRun ==
    \A i \in BatchIdx :
        batch[i].Status /= "verified" => \A u \in URLs : posts[i][u] = 0

\* The destination matches run i by the category rule and by the user rule.
BothRules(i, u) ==
    /\ Matched(i, u)
    /\ InSeq(batch[i].Category, toSend[i][u].Categories)
    /\ \E k \in 1..Len(batch[i].Players) :
           InSeq(batch[i].Players[k].ID, toSend[i][u].Users)

\* C2: for every run and every destination URL at most one POST is issued to
\* that URL for that run, whatever rules matched and whatever the POST
\* answered.
C2_AtMostOnePostPerRunAndUrl ==
    \A i \in RunIdx, u \in URLs : posts[i][u] <= 1

\* C2 witness: a destination that matches by both rules was posted to once,
\* was answered 429 and its closure is over.
C2_Witness ==
    \E i \in BatchIdx, u \in URLs :
        /\ BothRules(i, u)
        /\ posts[i][u] = 1 /\ answer[i][u] = "429" /\ dpc[i][u] = "done"

\* The closure of destination u has looked the run up in the list of its
\* triggering player.
Classified(i, u) ==
    Matched(i, u) /\ dpc[i][u] \notin {"idle", "classify"}

\* The rank of run i in the personal-bests list of the triggering player of
\* destination u, 0 when the run is not in the list.
OwnRank(i, u) ==
    LET pbs == userPBs[i][IndexOf(i, u)]
        hits == {k \in 1..Len(pbs) : pbs[k].Run = batch[i].ID}
    IN  IF hits = {} THEN 0
        ELSE pbs[CHOOSE k \in hits : \A j \in hits : k <= j].Place

\* C3: a matched subscription of scope "pb" whose triggering player does not
\* have the run in the personal-bests list gets no POST for that run.
C3_PbScopeNeverGetsOrdinary ==
    \A i \in BatchIdx, u \in URLs :
        (/\ Matched(i, u)
         /\ toSend[i][u].Events = "pb"
         /\ IndexOf(i, u) \in DOMAIN userPBs[i]
         /\ OwnRank(i, u) = 0)
        => posts[i][u] = 0 /\ dpc[i][u] \notin {"compose", "wait", "post", "done"}

\* C3 witness: the closure of a "pb" destination returned at the filter while
\* another destination of the same run, triggered by another player whose
\* list has the run, went on.
C3_Witness ==
    \E i \in BatchIdx, u \in URLs, v \in URLs :
        /\ Matched(i, u) /\ Matched(i, v) /\ u /= v
        /\ toSend[i][u].Events = "pb" /\ dpc[i][u] = "returned"
        /\ IndexOf(i, v) /= IndexOf(i, u)
        /\ Classified(i, v) /\ isPb[i][v]

InStore(u) == \E d \in store : d.WebhookUrl = u

\* C4: once a delivery to a destination was answered 404 and handled, the
\* subscription of that URL is gone from the store, and over the whole batch
\* it was removed exactly once, however many runs got 404 from it.
C4_RemovedExactlyOnce ==
    \A u \in URLs :
        /\ removed[u] <= 1
        /\ (\E i \in RunIdx : dpc[i][u] = "done" /\ answer[i][u] = "404")
               => ~InStore(u) /\ removed[u] = 1

\* C4 witness: two runs of the batch were both answered 404 by the same
\* destination, both closures are over and the process runs.
C4_Witness ==
    \E u \in URLs, i \in RunIdx, j \in RunIdx :
        /\ i /= j /\ crashed = ""
        /\ dpc[i][u] = "done" /\ answer[i][u] = "404"
        /\ dpc[j][u] = "done" /\ answer[j][u] = "404"
        /\ removed[u] = 1

FailedAnswers == {"404", "429", "500", "error"}

\* The pair (j, v) is matched and its closure has not ended.
Unfinished(j, v) ==
    /\ Matched(j, v)
    /\ dpc[j][v] \in {"idle", "classify", "icon", "compose", "wait", "post"}

\* C5: a failed delivery to one destination never keeps the other matched
\* (run, destination) pairs of the batch from being worked off.
C5_FailedDeliveryIsolated ==
    \A i \in RunIdx, u \in URLs :
        (Posted(i, u) /\ answer[i][u] \in FailedAnswers)
        => ~(/\ crashed /= ""
             /\ \E j \in RunIdx, v \in URLs : <<j, v>> /= <<i, u>> /\ Unfinished(j, v))

\* The ordinal of OwnRank, "" when the run is not in the list.
OwnPlace(i, u) == IF OwnRank(i, u) = 0 THEN "" ELSE Ordinal(OwnRank(i, u))

\* C6: a personal-bests query that fails leaves an empty list, and a message
\* sent to a destination triggered by that player is the ordinary one, with
\* no ordinal.
C6_FailedQueryGivesOrdinary ==
    \A i \in BatchIdx :
        /\ \A p \in pbFailed[i] \cap DOMAIN userPBs[i] : userPBs[i][p] = <<>>
        /\ \A u \in URLs :
               (Matched(i, u) /\ IndexOf(i, u) \in pbFailed[i] /\ Posted(i, u))
               => embed[i][u].title = "run" /\ embed[i][u].footer = NoFooter

\* C7: every message sent shows the classification of the run in the list of
\* the destination's own triggering player: world-record title iff rank 1,
\* personal-best title iff rank above 1, ordinary title and no footer iff
\* absent, and the footer's ordinal and icon are those of that rank.
C7_OwnClassificationShown ==
    \A i \in BatchIdx, u \in URLs :
        (Matched(i, u) /\ Posted(i, u)) =>
            LET e == embed[i][u]
                r == OwnRank(i, u)
            IN  /\ (e.title = "world record") <=> (r = 1)
                /\ (e.title = "personal best") <=> (r > 1)
                /\ (e.title = "run") <=> (r = 0)
                /\ (r = 0) <=> (e.footer = NoFooter)
                /\ r > 0 => e.footer =
                       [text |-> "They're now " \o OwnPlace(i, u) \o " place!",
                        icon_url |-> IconFor(batch[i], OwnPlace(i, u))]

\* C8: the handler has not written status 200 while a goroutine started for
\* the batch is still at work.
C8_SuccessAfterAllTasks ==
    hpc = "done" =>
        \A i \in RunIdx :
            /\ rpc[i] \in {"idle", "done"}
            /\ \A u \in URLs : dpc[i][u] \in {"idle", "done", "returned"}

\* C9: within one run at most one personal-bests request is sent per player
\* index, and every closure has classified the run with the list that one
\* request produced.
C9_OneQueryPerPlayer ==
    \A i \in RunIdx :
        /\ \A p \in PlayerIdx : pbQueries[i][p] <= 1
        /\ \A u \in URLs :
               Classified(i, u) =>
                   /\ IndexOf(i, u) \in DOMAIN userPBs[i]
                   /\ pbQueries[i][IndexOf(i, u)] = 1
                   /\ isPb[i][u] = (OwnRank(i, u) /= 0)

\* C9 witness: two destinations of one run trigger on the same player, both
\* closures have classified, and one request was sent for that player.
C9_Witness ==
    \E i \in BatchIdx, u \in URLs, v \in URLs :
        /\ u /= v /\ Classified(i, u) /\ Classified(i, v)
        /\ IndexOf(i, u) = IndexOf(i, v)
        /\ pbQueries[i][IndexOf(i, u)] = 1
        /\ isPb[i][u] /\ isPb[i][v]

RECURSIVE SumOver(_, _)
SumOver(f, S) ==
    IF S = {} THEN 0
    ELSE LET x == CHOOSE y \in S : TRUE IN f[x] + SumOver(f, S \ {x})

\* All personal-bests requests sent, all POSTs issued.
TotalQueries ==
    SumOver([x \in RunIdx \X PlayerIdx |-> pbQueries[x[1]][x[2]]], RunIdx \X PlayerIdx)
TotalPosts ==
    SumOver([x \in RunIdx \X URLs |-> posts[x[1]][x[2]]], RunIdx \X URLs)

LimitersSound ==
    /\ tokS >= 0 /\ tokD >= 0
    /\ TotalQueries <= takenS
    /\ TotalPosts <= takenD

LimiterStep ==
    /\ takenS' /= takenS => tokS > 0 /\ tokS' = tokS - 1 /\ tokD' = tokD
    /\ takenD' /= takenD => tokD > 0 /\ tokD' = tokD - 1 /\ tokS' = tokS
    /\ TotalQueries' /= TotalQueries => TotalQueries' <= takenS
    /\ TotalPosts' /= TotalPosts => TotalPosts' <= takenD

\* C10: every upstream request and every POST comes after a token was taken
\* from the limiter of its kind; a token is taken only from a bucket that
\* holds one, no bucket goes below zero, and taking from one limiter leaves
\* the other's tokens as they are.
C10_LimitersGuardCalls == [](LimitersSound) /\ [][LimiterStep]_vars

\* C10 witness: a delivery waits at the empty Discord bucket after another
\* delivery took its token and posted, and an upstream request was sent.
C10_Witness ==
    /\ tokD = 0 /\ takenD >= 1 /\ TotalPosts >= 1 /\ TotalQueries >= 1
    /\ \E i \in BatchIdx, u \in URLs : dpc[i][u] = "wait"

\* ------------------------------------------- the matcher as a function

\* Most players a run of the matcher's specification has.
MaxPlayers == 3

RECURSIVE SeqsUpTo(_, _)
SeqsUpTo(S, n) ==
    IF n = 0 THEN {<<>>}
    ELSE LET shorter == SeqsUpTo(S, n - 1)
         IN  shorter \cup {Append(q, x) : q \in {t \in shorter : Len(t) = n - 1}, x \in S}

\* Runs given to the matcher: either category, one to MaxPlayers players,
\* registered or guest, in any order.
MatchRuns ==
    {[ID |-> "rM", Category |-> c, Players |-> ps,
      Trophy1st |-> "", Trophy2nd |-> "", Trophy3rd |-> "", Status |-> "verified"] :
        c \in {"c1", "c2"}, ps \in SeqsUpTo({Ann, Bob, Gus}, MaxPlayers) \ {<<>>}}

\* The Categories and Users a subscription given to the matcher can list.
MatchRules ==
    [Categories : {<<>>, <<"c1">>, <<"c2", "c1">>},
     Users : {<<>>, <<"p1">>, <<"p2">>, <<"p2", "p1">>},
     Events : {"all"}]

\* The lists GetWebhooks can return to the matcher.
MatchLists ==
    UNION { {GetWebhooks({Subscription(u, f[u]) : u \in us}) : f \in [us -> MatchRules]}
            : us \in SUBSET URLs }

NoResult == [done |-> FALSE]
Returned(v) == [done |-> TRUE, value |-> v]

InitMatch ==
    /\ batch = <<>>
    /\ store = {}
    /\ Constructed
    /\ arg \in [run : MatchRuns, webhooks : MatchLists]
    /\ result = NoResult

\* One pass of the range loop of HandleVerified: the nextWebhook loop builds
\* webhooksToSend for arg.run.
ApplyMatch ==
    /\ ~result.done
    /\ result' = Returned(Match(arg.run, arg.webhooks))
    /\ UNCHANGED <<arg, hvars, svars, lvars, wg, crashed, rvars, shvars, dvars>>

NextMatch == ApplyMatch

MatchSpec == InitMatch /\ [][NextMatch]_vars

\* The reference the matcher is compared with. The category rule: the run's
\* category is one of the subscription's and the first player has an
\* international name.
RefCategoryRule(run, w) ==
    /\ \E k \in DOMAIN w.Categories : w.Categories[k] = run.Category
    /\ run.Players[1].International /= ""

\* Player i (from 0) is the first player of the run the subscription lists.
RefFirstUser(run, w, i) ==
    /\ \E k \in DOMAIN w.Users : w.Users[k] = run.Players[i + 1].ID
    /\ \A j \in 0..(i - 1) :
            \A k \in DOMAIN w.Users : w.Users[k] /= run.Players[j + 1].ID

RefEntry(w, i) ==
    [WebhookUrl |-> w.WebhookUrl, Categories |-> w.Categories,
     Users |-> w.Users, Events |-> w.Events, PlayerIndex |-> i]

\* C11: the matcher returns exactly the reference result: a subscription is
\* in the result with index 0 when the category rule holds; otherwise with
\* the index of the first player its user list names, also when the first
\* player of the run is a guest; otherwise it is not in the result.
C11_MatcherIsReference ==
    result.done =>
        LET run == arg.run
            out == result.value
        IN  /\ DOMAIN out \subseteq
                    {arg.webhooks[k].WebhookUrl : k \in DOMAIN arg.webhooks}
            /\ \A k \in DOMAIN arg.webhooks :
                    LET w == arg.webhooks[k]
                        u == w.WebhookUrl
                        idx == 0..(Len(run.Players) - 1)
                    IN  IF RefCategoryRule(run, w)
                        THEN u \in DOMAIN out /\ out[u] = RefEntry(w, 0)
                        ELSE IF \E i \in idx : RefFirstUser(run, w, i)
                        THEN /\ u \in DOMAIN out
                             /\ \E i \in idx : /\ RefFirstUser(run, w, i)
                                                /\ out[u] = RefEntry(w, i)
                        ELSE u \notin DOMAIN out

\* C11 witness: a run whose first player is a guest, in a category both
\* subscriptions list, is matched for one destination by its second player
\* and not matched for the other.
C11_Witness ==
    /\ result.done
    /\ arg.run.Players[1].International = ""
    /\ Len(arg.webhooks) = 2
    /\ \A k \in 1..2 : InSeq(arg.run.Category, arg.webhooks[k].Categories)
    /\ "u1" \in DOMAIN result.value
    /\ result.value["u1"].PlayerIndex = 1
    /\ "u2" \notin DOMAIN result.value

\* ------------------------------------------- batches, store failures

\* The subscriptions are listed and no run of the batch matches one: the
\* batch is empty, the list is empty, or no rule applies.
NothingToDeliver ==
    /\ hpc /= "start"
    /\ \A i \in BatchIdx : DOMAIN Match(batch[i], webhooks) = {}

\* C12: a batch that is empty, or whose runs match no subscription, or that
\* meets an empty subscription list, is handled without error (the handler is
\* on its way to the 200 answer, nothing panics, the process runs) and no
\* POST is issued for it.
C12_NothingToDeliverCompletes ==
    NothingToDeliver =>
        hpc /= "panicked" /\ Running /\ TotalPosts = 0

\* GetWebhooks failed while the handler was at its call.
ListFailed == hpc = "start" /\ crashed = "fatal: GetWebhooks"

\* C13: when GetWebhooks fails, nothing of the batch is matched or delivered
\* and only that batch is given up: the process goes on serving.
C13_ListFailureAbortsOnlyBatch ==
    ListFailed =>
        /\ webhooks = <<>> /\ nextRun = 1
        /\ \A i \in RunIdx : rpc[i] = "idle"
        /\ TotalPosts = 0
        /\ Running

\* ------------------------- the category and variables fields of a message

\* Most variables declared on the category, most keys of run.Values.
MaxVars == 3
MaxKeys == 3

Fn1(a, x) == [k \in {a} |-> x]
Fn2(a, x, b, y) == [k \in {a, b} |-> IF k = a THEN x ELSE y]
NoChoices == [k \in {} |-> ""]

\* Entries of Category.Data.Variables.Data. HasChoices is whether
\* Values["choices"] holds a map; Choices is that map.
VarGlitches == [ID |-> "v1", Name |-> "Glitches", IsSubcategory |-> TRUE,
                HasChoices |-> TRUE,
                Choices |-> Fn2("n1", "No Major Glitches", "x1", "Glitched")]
VarVersion == [ID |-> "v2", Name |-> "Version", IsSubcategory |-> TRUE,
               HasChoices |-> TRUE, Choices |-> Fn1("x1", "1.0")]
VarPlatform == [ID |-> "v3", Name |-> "Platform", IsSubcategory |-> FALSE,
                HasChoices |-> TRUE, Choices |-> Fn1("n1", "PC")]
VarLegacy == [ID |-> "v4", Name |-> "Legacy", IsSubcategory |-> TRUE,
              HasChoices |-> FALSE, Choices |-> NoChoices]
VarEmpty == [ID |-> "v5", Name |-> "Region", IsSubcategory |-> FALSE,
             HasChoices |-> TRUE, Choices |-> NoChoices]

VarCatalogue == {VarGlitches, VarVersion, VarPlatform, VarLegacy, VarEmpty}

\* The sequences over S of the length of S, each element once.
Orders(S) ==
    {q \in [1..Cardinality(S) -> S] : \A a, b \in DOMAIN q : a /= b => q[a] /= q[b]}

\* Variables.Data of a category: up to MaxVars variables, in any order.
VarLists ==
    UNION {Orders(vs) : vs \in {ws \in SUBSET VarCatalogue : Cardinality(ws) <= MaxVars}}

\* Keys and values run.Values can hold: the ids of the catalogue and one no
\* variable has; two choice ids and one no variable has.
ValueKeys == {"v1", "v2", "v3", "v4", "v5", "v9"}
ValueIds == {"n1", "x1", "zz"}

ValueMaps ==
    UNION {[ks -> ValueIds] : ks \in {ls \in SUBSET ValueKeys : Cardinality(ls) <= MaxKeys}}

InitFields ==
    /\ batch = <<>>
    /\ store = {}
    /\ Constructed
    /\ arg \in [Name : {"Any%"}, Variables : VarLists, Values : ValueMaps]
    /\ result = NoResult

NoFields == [category |-> "", variables |-> "", panicked |-> FALSE]

\* The range over Category.Data.Variables.Data for one key of run.Values,
\* from position j on: category and variables grow by the choice the key
\* resolves to; the type assertion on a missing "choices" panics.
RECURSIVE RangeVariables(_, _, _, _, _)
RangeVariables(acc, run, key, value, j) ==
    IF acc.panicked \/ j > Len(run.Variables) THEN acc
    ELSE LET variable == run.Variables[j]
             varVal == variable.Choices[value]
             grown ==
                 IF variable.IsSubcategory
                 THEN [acc EXCEPT !.category =
                          IF @ /= "" THEN @ \o ", " \o varVal
                          ELSE run.Name \o " (" \o varVal]
                 ELSE [acc EXCEPT !.variables =
                          IF @ /= "" THEN @ \o ", " \o variable.Name \o ": " \o varVal
                          ELSE " (" \o variable.Name \o ": " \o varVal]
         IN  IF variable.ID /= key
             THEN RangeVariables(acc, run, key, value, j + 1)
             ELSE IF ~variable.HasChoices
             THEN [acc EXCEPT !.panicked = TRUE]
             ELSE IF value \in DOMAIN variable.Choices
             THEN RangeVariables(grown, run, key, value, j + 1)
             ELSE RangeVariables(acc, run, key, value, j + 1)

\* The range over run.Values, visiting its keys in the order the map
\* iteration yields them, from position k on.
RECURSIVE RangeValues(_, _, _, _)
RangeValues(acc, run, order, k) ==
    IF acc.panicked \/ k > Len(order) THEN acc
    ELSE RangeValues(RangeVariables(acc, run, order[k], run.Values[order[k]], 1),
                     run, order, k + 1)

\* category and variables as the fields of the message get them.
CloseFields(acc, run) ==
    [category |-> IF acc.category /= "" THEN acc.category \o ")" ELSE run.Name,
     variables |-> IF acc.variables /= "" THEN acc.variables \o ")" ELSE ""]

\* SendWebhook builds category and variables; the map iteration takes the
\* keys of run.Values in some order. A panic in this goroutine ends the
\* process.
ApplyFields(order) ==
    /\ Running /\ ~result.done
    /\ LET acc == RangeValues(NoFields, arg, order, 1)
       IN  IF acc.panicked
           THEN crashed' = "panic: interface conversion" /\ result' = result
           ELSE crashed' = crashed /\ result' = Returned(CloseFields(acc, arg))
    /\ UNCHANGED <<arg, hvars, svars, lvars, wg, rvars, shvars, dvars>>

NextFields == \E order \in Orders(DOMAIN arg.Values) : ApplyFields(order)

FieldsSpec == InitFields /\ [][NextFields]_vars

\* The variable of the category a key of run.Values resolves against, with
\* the choice the run made among its choices.
ResolvedVar(run, variable) ==
    /\ variable.ID \in DOMAIN run.Values
    /\ variable.HasChoices
    /\ run.Values[variable.ID] \in DOMAIN variable.Choices

ChosenLabel(run, variable) == variable.Choices[run.Values[variable.ID]]

RECURSIVE CommaJoin(_, _)
CommaJoin(labels, k) ==
    IF k > Len(labels) THEN ""
    ELSE IF k = Len(labels) THEN labels[k]
    ELSE labels[k] \o ", " \o CommaJoin(labels, k + 1)

\* The labels of the resolved subcategory variables among vs[j..], in the
\* order of vs.
RECURSIVE SubcategoryLabels(_, _, _)
SubcategoryLabels(run, vs, j) ==
    IF j > Len(vs) THEN <<>>
    ELSE (IF vs[j].IsSubcategory /\ ResolvedVar(run, vs[j])
          THEN <<ChosenLabel(run, vs[j])>> ELSE <<>>)
         \o SubcategoryLabels(run, vs, j + 1)

RefCategoryLabel(run, vs) ==
    LET labels == SubcategoryLabels(run, vs, 1)
    IN  IF labels = <<>> THEN run.Name
        ELSE run.Name \o " (" \o CommaJoin(labels, 1) \o ")"

\* C14: the category label is the base name followed, in parentheses, by the
\* labels of the resolved subcategory variables, comma-joined in the order
\* the variables are declared on the category, whatever the order the run's
\* mapping is iterated in; the base name alone when there is none.
C14_LabelInDeclarationOrder ==
    result.done => result.value.category = RefCategoryLabel(arg, arg.Variables)

\* The "name: label" entries of the resolved other variables among vs[j..].
RECURSIVE VariableEntries(_, _, _)
VariableEntries(run, vs, j) ==
    IF j > Len(vs) THEN <<>>
    ELSE (IF ~vs[j].IsSubcategory /\ ResolvedVar(run, vs[j])
          THEN <<vs[j].Name \o ": " \o ChosenLabel(run, vs[j])>> ELSE <<>>)
         \o VariableEntries(run, vs, j + 1)

RefVariablesText(run, vs) ==
    LET entries == VariableEntries(run, vs, 1)
    IN  IF entries = <<>> THEN "" ELSE " (" \o CommaJoin(entries, 1) \o ")"

\* C16: a key of the run's mapping that does not resolve (no variable of
\* that id, a variable without choices, a choice that is not among the
\* variable's) is skipped without a failure: the process runs on, and the
\* fields render exactly the keys that resolve, in some order.
C16_UnresolvedKeysSkipped ==
    /\ Running
    /\ result.done =>
           \E vs \in Orders({arg.Variables[j] : j \in DOMAIN arg.Variables}) :
               /\ result.value.category = RefCategoryLabel(arg, vs)
               /\ result.value.variables = RefVariablesText(arg, vs)

\* ----------------------------------------------- the time field of a message

\* Whole seconds up to which every primary time is tried.
MaxSecs == 130

\* Strings of this part are sequences of one-character strings, so that
\* strings.Replace and slicing act on characters.
DigitChar(d) == Digits[d + 1]

RECURSIVE Decimal(_)
Decimal(n) == IF n < 10 THEN <<DigitChar(n)>> ELSE Decimal(n \div 10) \o <<DigitChar(n % 10)>>

\* time.Duration.String() of a whole number of seconds: "0s", "5s", "2m5s",
\* "1h0m0s".
DurationString(secs) ==
    LET sec == secs % 60
        min == (secs \div 60) % 60
        hrs == secs \div 3600
    IN  IF hrs > 0
        THEN Decimal(hrs) \o <<"h">> \o Decimal(min) \o <<"m">> \o Decimal(sec) \o <<"s">>
        ELSE IF min > 0
        THEN Decimal(min) \o <<"m">> \o Decimal(sec) \o <<"s">>
        ELSE Decimal(sec) \o <<"s">>

\* strings.Replace(str, old, new, 1) for a one-character old.
ReplaceFirst(str, old, new) ==
    LET at == {k \in 1..Len(str) : str[k] = old}
    IN  IF at = {} THEN str
        ELSE LET k == CHOOSE a \in at : \A b \in at : a <= b
             IN  SubSeq(str, 1, k - 1) \o new \o SubSeq(str, k + 1, Len(str))

\* fmt.Sprintf("%.3f", ms) for the fraction ms/1000.
MsString(ms) ==
    <<"0", ".">> \o <<DigitChar(ms \div 100), DigitChar((ms \div 10) % 10), DigitChar(ms % 10)>>

\* runTime as SendWebhook builds it from Times.Primary = secs + ms/1000.
RunTime(secs, ms) ==
    LET d == DurationString(secs)
        h == ReplaceFirst(d, "h", <<"h", " ">>)
        m == ReplaceFirst(h, "m", <<"m", " ">>)
        t == ReplaceFirst(m, "s", <<"s", " ">>)
        msString == MsString(ms)
        withMs == IF msString /= <<"0", ".", "0", "0", "0">>
                  THEN t \o SubSeq(msString, 3, Len(msString)) \o <<"m", "s">>
                  ELSE t
    IN  IF withMs = <<>> THEN <<"0", "s">> ELSE withMs

\* The primary times tried: every whole second up to MaxSecs and some around
\* and above an hour, with a remainder of 0..999 milliseconds.
TimeSecs == (0..MaxSecs) \cup {3599, 3600, 3725, 36000, 90061}
TimeMs == {0, 1, 50, 250, 999}

InitTime ==
    /\ batch = <<>>
    /\ store = {}
    /\ Constructed
    /\ arg \in [secs : TimeSecs, ms : TimeMs]
    /\ result = NoResult

\* SendWebhook formats Times.Primary.
ApplyTime ==
    /\ ~result.done
    /\ result' = Returned(RunTime(arg.secs, arg.ms))
    /\ UNCHANGED <<arg, hvars, svars, lvars, wg, crashed, rvars, shvars, dvars>>

NextTime == ApplyTime

TimeSpec == InitTime /\ [][NextTime]_vars

\* The characters of a string, as one string.
RECURSIVE Str(_)
Str(chars) == IF chars = <<>> THEN "" ELSE Head(chars) \o Str(Tail(chars))

\* The rendering the time is compared with: the units of the whole seconds
\* with their suffixes, leading zero units left out, one space between
\* units, then a space and the milliseconds with "ms" when they are not zero.
RefUnits(secs) ==
    LET hrs == secs \div 3600
        min == (secs \div 60) % 60
        sec == secs % 60
    IN  (IF hrs > 0 THEN <<Itoa(hrs) \o "h">> ELSE <<>>)
        \o (IF hrs > 0 \/ min > 0 THEN <<Itoa(min) \o "m">> ELSE <<>>)
        \o <<Itoa(sec) \o "s">>

RECURSIVE SpaceJoin(_, _)
SpaceJoin(parts, k) ==
    IF k > Len(parts) THEN ""
    ELSE IF k = Len(parts) THEN parts[k]
    ELSE parts[k] \o " " \o SpaceJoin(parts, k + 1)

RefMs(ms) == Itoa(ms \div 100) \o Itoa((ms \div 10) % 10) \o Itoa(ms % 10)

RefDuration(secs, ms) ==
    SpaceJoin(RefUnits(secs) \o (IF ms /= 0 THEN <<RefMs(ms) \o "ms">> ELSE <<>>), 1)

\* C15: a time of whole seconds and 0..999 milliseconds renders as its units
\* separated by single spaces, zero leading units left out, followed by the
\* milliseconds and "ms" only when they are not zero, and nothing else:
\* 125.25 s is "2m 5s 250ms", 0 s is "0s", 3600 s is "1h 0m 0s".
C15_DurationRendering ==
    result.done =>
        /\ Str(result.value) = RefDuration(arg.secs, arg.ms)
        /\ (arg.secs = 125 /\ arg.ms = 250) => Str(result.value) = "2m 5s 250ms"
        /\ (arg.secs = 0 /\ arg.ms = 0) => Str(result.value) = "0s"
        /\ (arg.secs = 3600 /\ arg.ms = 0) => Str(result.value) = "1h 0m 0s"

\* ------------------------------------------- what the goroutines share

\* The phrase that names the triggering player of destination u for run i.
RefAuthor(i, u) ==
    LET run == batch[i]
        others == Len(run.Players) - 1
    IN  run.Players[IndexOf(i, u) + 1].International
        \o (IF others = 0 THEN ""
            ELSE IF others = 1 THEN " and 1 other"
            ELSE " and " \o Itoa(others) \o " others")

\* C17: the author phrase of every message sent names the triggering player
\* of the destination it is sent to, followed by " and 1 other" or
\* " and N others" when the run has more players, under every interleaving
\* of the run's closures.
C17_AuthorIsOwnPlayer ==
    \A i \in BatchIdx, u \in URLs :
        (Matched(i, u) /\ Posted(i, u)) => embed[i][u].author = RefAuthor(i, u)

\* What the closure of destination u does next to the variables declared
\* once per run (place, iconUrl, author) and to the map userPBs.
WritesShared(i, u) ==
    \/ dpc[i][u] = "classify" /\ FirstPB(userPBs[i][IndexOf(i, u)], batch[i].ID) /= 0
    \/ dpc[i][u] = "icon"
ReadsShared(i, u) == dpc[i][u] \in {"icon", "compose"}
ReadsMap(i, u) == dpc[i][u] = "classify"

\* C18: the limiters are the only state the concurrent goroutines share: no
\* closure is about to read userPBs while the run's goroutine is writing an
\* entry of it, and no closure is about to read a variable that another
\* closure of the same run is about to write.
C18_OnlyLimitersShared ==
    \A i \in BatchIdx, u \in URLs :
        Matched(i, u) =>
            /\ ~(ReadsMap(i, u) /\ MapRace(i))
            /\ \A v \in URLs \ {u} :
                   Matched(i, v) => ~(ReadsShared(i, u) /\ WritesShared(i, v))

\* ------------------------------------------------- the store and deliveries

\* C19: when DeleteWebhook fails after a 404 (the closure was answered 404 and
\* did not get past the delete), only that delete is given up: the process
\* runs on, so that every other delivery can still be worked off.
C19_DeleteFailureIsolated ==
    \A i \in RunIdx, u \in URLs :
        (answer[i][u] = "404" /\ dpc[i][u] = "post") => Running

\* A step in which the closure of (i, u) posted and was answered o.
PostStep(i, u, o) == posts'[i][u] = posts[i][u] + 1 /\ answer'[i][u] = o

StoreStep ==
    /\ store' /= store =>
           \E i \in RunIdx, u \in URLs :
               /\ PostStep(i, u, "404")
               /\ store' = {d \in store : d.WebhookUrl /= u}
    /\ \A i \in RunIdx, u \in URLs, o \in PostOutcomes \ {"404"} :
           PostStep(i, u, o) => store' = store
    /\ (pbQueries' /= pbQueries \/ toSend' /= toSend \/ webhooks' /= webhooks)
           => store' = store

\* C20: the store changes only in a delivery that was answered 404, and then
\* only by losing the subscription of that delivery's URL: a 2xx, 429, other
\* status or transport error, a personal-bests query and the matching leave
\* it as it is, and a 404 from one destination never removes another's
\* subscription.
C20_StoreFrame == [][StoreStep]_vars

\* C20 witness: one destination answered 404 and lost its subscription while
\* the other, answered 429 for the same run, still has its own.
C20_Witness ==
    \E i \in BatchIdx, u \in URLs, v \in URLs :
        /\ u /= v
        /\ dpc[i][u] = "done" /\ answer[i][u] = "404" /\ ~InStore(u)
        /\ dpc[i][v] = "done" /\ answer[i][v] = "429" /\ InStore(v)

\* ------------------------------------------------ the WaitGroup, termination

\* The handler has answered and every goroutine started for the batch has
\* ended: the goroutine of each run and the closure of each destination.
AllFinished ==
    /\ hpc = "done"
    /\ \A i \in RunIdx :
           /\ rpc[i] \in {"idle", "done"}
           /\ \A u \in URLs : dpc[i][u] \in {"idle", "done", "returned"}

\* C21: every wg.Add(1) is matched by one wg.Done(): the counter is never
\* negative, and once everything started for the batch has ended it is back
\* at its value before the batch, also when a destination of scope "pb" was
\* skipped because the run is not a personal best.
C21_WaitGroupBalanced ==
    /\ wg >= 0
    /\ AllFinished => wg = 0

\* Longest batch of the specification with fairness.
MaxFairRuns == 1

InitFair == Init /\ Len(batch) <= MaxFairRuns

\* The steps of the handler, of the goroutine of run i and of the closure of
\* destination u of run i.
HandlerStep == Receive \/ ReceiveFail \/ Switch \/ HandleRun \/ HandleDone \/ Respond

RunStep(i) ==
    \/ \E u \in URLs : RunPick(i, u)
    \/ PBAcquire(i)
    \/ rpc[i] = "pbcall" /\ \E o \in PBOutcomes(batch[i].ID) : PBResponse(i, o)
    \/ PBStore(i)
    \/ RunFinish(i)

ClosureStep(i, u) ==
    \/ Classify(i, u)
    \/ ClassifyRace(i, u)
    \/ Icon(i, u)
    \/ Compose(i, u)
    \/ DAcquire(i, u)
    \/ \E o \in PostOutcomes, del \in DeleteOutcomes : DPost(i, u, o, del)

\* The scheduler runs every goroutine that can take a step, every network
\* call returns (its step is taken), and both limiters regain tokens.
Fairness ==
    /\ WF_vars(HandlerStep)
    /\ \A i \in RunIdx : WF_vars(RunStep(i))
    /\ \A i \in RunIdx, u \in URLs : WF_vars(ClosureStep(i, u))
    /\ WF_vars(RefillS)
    /\ WF_vars(RefillD)

FairSpec == InitFair /\ [][Next]_vars /\ Fairness

\* C22: under fair scheduling, with limiters that refill and network calls
\* that return, every goroutine started for a run and every closure started
\* for a destination ends, and every matched (run, destination) pair that the
\* pb filter does not skip gets its POST.
C22_EveryTaskEndsEveryPairPosted ==
    \A i \in RunIdx, u \in URLs :
        /\ (rpc[i] /= "idle") ~> (rpc[i] = "done")
        /\ (dpc[i][u] /= "idle") ~> (dpc[i][u] \in {"done", "returned"})
        /\ Matched(i, u) ~> (Posted(i, u) \/ dpc[i][u] = "returned")

====
